---- MODULE Spec2Model ----
(***************************************************************************)
(* GameSeeder (game_seeder.py): players, duplicates (aliases), the matrix  *)
(* of shared games, the fitness of a game and the seeding of a round.      *)
(***************************************************************************)
EXTENDS Integers, Sequences, FiniteSets, TLC

VARIABLES
    games_played,          \* self.games_played
    games_played_matrix,   \* self.games_played_matrix: player -> (player -> count)
    duplicates,            \* self.duplicates: new_key -> player
    seed_method,           \* self.seed_method
    starts,                \* self.starts
    iterations,            \* self.iterations
    last,                  \* the last call: its arguments, what it raised, what it returned
    pc,                    \* where the seed_games in progress stands ("idle": none is)
    call,                  \* seed_games and _assign_players_wrapper: their arguments and locals
    assign,                \* the locals of _assign_players_to_games_randomly
    improve,               \* the locals of _improve_fitness
    previous_games,        \* PowerAssignment.previous_games: player -> the list it holds
    groupings,             \* PowerAssignment.groupings: list of (grouping, value)
    lists                  \* the list objects the caller and previous_games share

registry == <<games_played, games_played_matrix, duplicates>>
config == <<seed_method, starts, iterations>>
frames == <<pc, call, assign, improve>>
assigner == <<previous_games, groupings, lists>>
vars == <<registry, config, last, frames, assigner>>

-----------------------------------------------------------------------------
(* Bounds and inputs *)

\* A Diplomacy game has seven players.
GameSize == 7

\* add_played_game is called while fewer than MaxGames games are recorded.
MaxGames == 2

\* GameSeeder(starts, iterations) is constructed with starts in StartsInputs
\* and iterations in 0..MaxIterations.
StartsInputs == {1, 2}
MaxIterations == 2

\* The defaults of GameSeeder().
DefaultStarts == 1
DefaultIterations == 1000

RANDOM == "RANDOM"
EXHAUSTIVE == "EXHAUSTIVE"

\* The identities the callers use ("Z" is never registered), in the order
\* of their hashes.
IdOrder == <<"A", "B", "C", "D", "E", "F", "G", "H", "I", "J", "K", "L", "X", "Y", "Z">>

Ids == {IdOrder[i] : i \in DOMAIN IdOrder}

Reverse(s) == [i \in DOMAIN s |-> s[Len(s) + 1 - i]]

\* A Python set iterates in the order of its elements' hashes, which the
\* identities bring with them: a call draws that order from HashOrders.
HashOrders == {IdOrder, Reverse(IdOrder)}

\* The seats every offered game holds, and those it may hold.
CoreSeats == {"A", "B", "C", "D", "E"}
OtherSeats == {"F", "G", "X", "Y"}

\* The games offered to add_played_game and _fitness_score: every game of
\* seven seats, one of six and one of eight.
GameInputs ==
    {CoreSeats \cup s : s \in {t \in SUBSET OtherSeats :
        Cardinality(t) + Cardinality(CoreSeats) = GameSize}}
    \cup {CoreSeats \cup {"F"}, CoreSeats \cup {"F", "G", "X"}}

\* The lists of games offered to _set_fitness: none, a seven-seat game, and
\* the game of FirstPlayers followed by a seven-seat game.
GameListInputs ==
    LET seven == {g \in GameInputs : Cardinality(g) = GameSize} IN
    {<<>>} \cup {<<g>> : g \in seven} \cup {<<CoreSeats \cup {"F", "G"}, g>> : g \in seven}

\* The players duplicate_player is asked to duplicate.
DuplicateInputs == {"E", "G", "X"}

\* PowerAssignment(all_powers): the powers of the game.
all_powers == <<"A", "E">>

\* A power that is not one of them.
UnknownPower == "Z"

\* The players powers are assigned to.
PowerPlayers == {"P", "Q"}

\* add_power_played is called while the list it appends to is shorter than
\* MaxHistory, add_grouping while fewer than MaxGroupings are registered.
MaxHistory == 3
MaxGroupings == 2

\* add_grouping's default value.
DefaultValue == 100

\* The list objects the caller has made, and what they hold at first.
CallerLists ==
    [L1 |-> <<"A">>, L2 |-> <<"A", "A", "E">>, L3 |-> <<"A", "Z">>]

\* The groupings and values offered to add_grouping: the powers apart, the
\* powers together, one short of E, one with an unknown power, one with A
\* twice in a group and E in two groups.
GroupingInputs ==
    { << << <<"A">>, <<"E">> >>, DefaultValue >>,
      << << <<"A", "E">> >>, -1 >>,
      << << <<"A">> >>, DefaultValue >>,
      << << <<"A">>, <<"E", "Z">> >>, DefaultValue >>,
      << << <<"A", "A", "E">>, <<"E">> >>, DefaultValue >> }

\* The lists of players offered to best_power_assignment.
ForPlayersInputs == {<<"P", "Q">>, <<"P">>}

\* random.shuffle(remaining_powers) leaves the powers in one of these orders.
Shuffles == {all_powers, Reverse(all_powers)}

-----------------------------------------------------------------------------
(* Python values *)

EmptyDict == [k \in {} |-> 0]

DictPut(d, k, v) == [x \in DOMAIN d \cup {k} |-> IF x = k THEN v ELSE d[x]]

\* list(s) / "for p in s" under hash order h
Iter(s, h) == SelectSeq(h, LAMBDA x : x \in s)

NoException == [type |-> "none", text |-> "", names |-> {}]

Raised(type, text, names) == [type |-> type, text |-> text, names |-> names]

NoId == ""

Call(op, player, key, game, exc, ret) ==
    [op |-> op, player |-> player, key |-> key, game |-> game, games |-> <<>>,
     omitting_players |-> {}, seedings |-> <<>>, exc |-> exc, ret |-> ret]

-----------------------------------------------------------------------------
(* GameSeeder.__init__ *)

\* No call is outstanding: the caller has taken the result of its last call.
Ready == Call("", NoId, NoId, {}, NoException, 0)

\* The state after GameSeeder() and add_player of each of FirstPlayers.
FirstPlayers == <<"A", "B", "C", "D", "E", "F", "G">>

\* No seed_games is in progress.
NoCall == [omitting_players |-> {}, h |-> <<>>, players |-> {}, seedings |-> <<>>]
NoAssign == [players |-> {}, discards |-> {}, game |-> {}, res |-> <<>>]
NoImprove == [games |-> <<>>, best_set |-> <<>>, best_fitness |-> 0, t |-> 0]

Idle == pc = "idle" /\ call = NoCall /\ assign = NoAssign /\ improve = NoImprove

\* PowerAssignment.__init__: no history, no grouping.
NewAssigner == previous_games = EmptyDict /\ groupings = <<>> /\ lists = CallerLists

Init ==
    /\ games_played = 0
    /\ games_played_matrix = [p \in {FirstPlayers[i] : i \in DOMAIN FirstPlayers} |-> EmptyDict]
    /\ duplicates = EmptyDict
    /\ seed_method = RANDOM
    /\ starts = DefaultStarts
    /\ iterations = DefaultIterations
    /\ last = Ready
    /\ Idle
    /\ NewAssigner

-----------------------------------------------------------------------------
(* add_player *)

AddPlayerResult(matrix, player) ==
    IF player \in DOMAIN matrix
    THEN [matrix |-> matrix, exc |-> Raised("InvalidPlayer", "str", {player})]
    ELSE [matrix |-> DictPut(matrix, player, EmptyDict), exc |-> NoException]

\* The identities the callers introduce after FirstPlayers, in this order.
NewOrder == <<"X", "Y">>

\* The first identity of NewOrder that is neither a player nor a duplicate.
Unused == {i \in DOMAIN NewOrder :
              NewOrder[i] \notin DOMAIN games_played_matrix \cup DOMAIN duplicates}

NextNew == IF Unused = {} THEN {}
           ELSE {NewOrder[CHOOSE i \in Unused : \A j \in Unused : i <= j]}

add_player(player) ==
    LET r == AddPlayerResult(games_played_matrix, player) IN
    /\ last = Ready
    /\ games_played_matrix' = r.matrix
    /\ last' = Call("add_player", player, NoId, {}, r.exc, 0)
    /\ UNCHANGED <<games_played, duplicates, config, frames, assigner>>

-----------------------------------------------------------------------------
(* duplicate_player *)

\* duplicate_player without its test of new_key against the duplicates.
DuplicatePlayerOverwrites(matrix, dups, player, new_key) ==
    IF player \notin DOMAIN matrix
    THEN [duplicates |-> dups, exc |-> Raised("InvalidPlayer", "str", {player})]
    ELSE IF new_key \in DOMAIN matrix
    THEN [duplicates |-> dups, exc |-> Raised("InvalidKey", "is a player", {new_key})]
    ELSE [duplicates |-> DictPut(dups, new_key, player), exc |-> NoException]

DuplicatePlayerResult(matrix, dups, player, new_key) ==
    IF player \notin DOMAIN matrix
    THEN [duplicates |-> dups, exc |-> Raised("InvalidPlayer", "str", {player})]
    ELSE IF new_key \in DOMAIN matrix
    THEN [duplicates |-> dups, exc |-> Raised("InvalidKey", "is a player", {new_key})]
    ELSE IF new_key \in DOMAIN dups
    THEN [duplicates |-> dups,
          exc |-> Raised("InvalidKey", "already recorded as a duplicate", {new_key})]
    ELSE [duplicates |-> DictPut(dups, new_key, player), exc |-> NoException]

duplicate_player(player, new_key) ==
    LET r == DuplicatePlayerResult(games_played_matrix, duplicates, player, new_key) IN
    /\ last = Ready
    /\ duplicates' = r.duplicates
    /\ last' = Call("duplicate_player", player, new_key, {}, r.exc, 0)
    /\ UNCHANGED <<games_played, games_played_matrix, config, frames, assigner>>

-----------------------------------------------------------------------------
(* _replace_duplicates_with_mains, _check_for_playing_self *)

\* The loop over the copy of game, in the order seq; game is changed in place.
RECURSIVE ReplaceLoop(_, _, _)
ReplaceLoop(dups, game, seq) ==
    IF seq = <<>> THEN game
    ELSE LET p == Head(seq) IN
         ReplaceLoop(dups,
                     IF p \in DOMAIN dups THEN (game \ {p}) \cup {dups[p]} ELSE game,
                     Tail(seq))

ReplaceDuplicatesWithMains(dups, game, h) == ReplaceLoop(dups, game, Iter(game, h))

CheckForPlayingSelf(dups, game, h) ==
    LET new_game == ReplaceDuplicatesWithMains(dups, game, h)
        removals == game \ new_game
        changes  == (game \ new_game) \cup (new_game \ game)
    IN  IF Cardinality(new_game) = Cardinality(game)
        THEN NoException
        ELSE Raised("InvalidPlayer", "Duplicate players",
                    changes \cup {dups[p] : p \in removals})

-----------------------------------------------------------------------------
(* add_played_game *)

\* The inner loop with "+= 1" left out: a count that is there stays.
RECURSIVE RecordRowOnce(_, _, _)
RecordRowOnce(matrix, p, qs) ==
    IF qs = <<>> THEN [matrix |-> matrix, exc |-> NoException]
    ELSE LET q == Head(qs) IN
         IF p = q THEN RecordRowOnce(matrix, p, Tail(qs))
         ELSE IF q \in DOMAIN matrix[p]
         THEN RecordRowOnce(matrix, p, Tail(qs))
         ELSE IF q \notin DOMAIN matrix
         THEN [matrix |-> matrix, exc |-> Raised("InvalidPlayer", "str", {q})]
         ELSE RecordRowOnce([matrix EXCEPT ![p] = DictPut(@, q, 1)], p, Tail(qs))

\* The inner loop "for q in game" of player p, over the rest qs of the game.
RECURSIVE RecordRow(_, _, _)
RecordRow(matrix, p, qs) ==
    IF qs = <<>> THEN [matrix |-> matrix, exc |-> NoException]
    ELSE LET q == Head(qs) IN
         IF p = q THEN RecordRow(matrix, p, Tail(qs))
         ELSE IF q \in DOMAIN matrix[p]
         THEN RecordRow([matrix EXCEPT ![p][q] = @ + 1], p, Tail(qs))
         ELSE IF q \notin DOMAIN matrix
         THEN [matrix |-> matrix, exc |-> Raised("InvalidPlayer", "str", {q})]
         ELSE RecordRow([matrix EXCEPT ![p] = DictPut(@, q, 1)], p, Tail(qs))

\* The outer loop "for p in game", over the rest ps of the game.
RECURSIVE RecordGame(_, _, _)
RecordGame(matrix, ps, game_seq) ==
    IF ps = <<>> THEN [matrix |-> matrix, exc |-> NoException]
    ELSE LET p == Head(ps) IN
         IF p \notin DOMAIN matrix
         THEN [matrix |-> matrix, exc |-> Raised("InvalidPlayer", "str", {p})]
         ELSE LET r == RecordRow(matrix, p, game_seq) IN
              IF r.exc # NoException THEN r
              ELSE RecordGame(r.matrix, Tail(ps), game_seq)

AddPlayedGameResult(matrix, dups, played, game, h) ==
    IF Cardinality(game) # GameSize
    THEN [matrix |-> matrix, games_played |-> played,
          exc |-> Raised("InvalidPlayerCount", "str", {})]
    ELSE LET c == CheckForPlayingSelf(dups, game, h) IN
         IF c # NoException
         THEN [matrix |-> matrix, games_played |-> played, exc |-> c]
         ELSE LET g == ReplaceDuplicatesWithMains(dups, game, h)
                  r == RecordGame(matrix, Iter(g, h), Iter(g, h))
              IN  [matrix |-> r.matrix,
                   games_played |-> IF r.exc = NoException THEN played + 1 ELSE played,
                   exc |-> r.exc]

\* Every count of the matrix is below n.
CountsBelow(matrix, n) ==
    \A p \in DOMAIN matrix : \A q \in DOMAIN matrix[p] : matrix[p][q] < n

add_played_game(game, h) ==
    LET r == AddPlayedGameResult(games_played_matrix, duplicates, games_played, game, h) IN
    /\ last = Ready
    /\ games_played < MaxGames
    /\ CountsBelow(games_played_matrix, MaxGames)
    /\ games_played_matrix' = r.matrix
    /\ games_played' = r.games_played
    /\ last' = Call("add_played_game", NoId, NoId, game, r.exc, 0)
    /\ UNCHANGED <<duplicates, config, frames, assigner>>

-----------------------------------------------------------------------------
(* _fitness_score *)

\* The inner loop counting the pairs that have met, not their games.
RECURSIVE FitnessRowOfPairs(_, _, _)
FitnessRowOfPairs(matrix, p, qs) ==
    IF qs = <<>> THEN 0
    ELSE LET q == Head(qs) IN
         (IF p # q /\ q \in DOMAIN matrix[p] THEN 1 ELSE 0)
         + FitnessRowOfPairs(matrix, p, Tail(qs))

\* The inner loop "for q in g" of player p.
RECURSIVE FitnessRow(_, _, _)
FitnessRow(matrix, p, qs) ==
    IF qs = <<>> THEN 0
    ELSE LET q == Head(qs) IN
         (IF p # q /\ q \in DOMAIN matrix[p] THEN matrix[p][q] ELSE 0)
         + FitnessRow(matrix, p, Tail(qs))

\* The outer loop counting every row twice.
RECURSIVE FitnessLoopTwice(_, _, _)
FitnessLoopTwice(matrix, ps, g_seq) ==
    IF ps = <<>> THEN [f |-> 0, exc |-> NoException]
    ELSE LET p == Head(ps) IN
         IF p \notin DOMAIN matrix
         THEN [f |-> 0, exc |-> Raised("InvalidPlayer", "str", {p})]
         ELSE LET rest == FitnessLoopTwice(matrix, Tail(ps), g_seq) IN
              IF rest.exc # NoException THEN rest
              ELSE [f |-> 2 * FitnessRow(matrix, p, g_seq) + rest.f,
                    exc |-> NoException]

\* The outer loop "for p in g".
RECURSIVE FitnessLoop(_, _, _)
FitnessLoop(matrix, ps, g_seq) ==
    IF ps = <<>> THEN [f |-> 0, exc |-> NoException]
    ELSE LET p == Head(ps) IN
         IF p \notin DOMAIN matrix
         THEN [f |-> 0, exc |-> Raised("InvalidPlayer", "str", {p})]
         ELSE LET rest == FitnessLoop(matrix, Tail(ps), g_seq) IN
              IF rest.exc # NoException THEN rest
              ELSE [f |-> FitnessRow(matrix, p, g_seq) + rest.f, exc |-> NoException]

FitnessScore(matrix, dups, game, h) ==
    LET c == CheckForPlayingSelf(dups, game, h) IN
    IF c # NoException THEN [f |-> 0, exc |-> c]
    ELSE LET g == ReplaceDuplicatesWithMains(dups, game, h) IN
         FitnessLoop(matrix, Iter(g, h), Iter(g, h))

fitness_score(game, h) ==
    LET r == FitnessScore(games_played_matrix, duplicates, game, h) IN
    /\ last = Ready
    /\ last' = Call("_fitness_score", NoId, NoId, game, r.exc, r.f)
    /\ UNCHANGED <<registry, config, frames, assigner>>

-----------------------------------------------------------------------------
(* _set_fitness *)

RECURSIVE SetFitness(_, _, _, _)
SetFitness(matrix, dups, games, h) ==
    IF games = <<>> THEN [f |-> 0, exc |-> NoException]
    ELSE LET r == FitnessScore(matrix, dups, Head(games), h) IN
         IF r.exc # NoException THEN r
         ELSE LET rest == SetFitness(matrix, dups, Tail(games), h) IN
              IF rest.exc # NoException THEN rest
              ELSE [f |-> r.f + rest.f, exc |-> NoException]

set_fitness(games, h) ==
    LET r == SetFitness(games_played_matrix, duplicates, games, h) IN
    /\ last = Ready
    /\ last' = [Call("_set_fitness", NoId, NoId, {}, r.exc, r.f) EXCEPT !.games = games]
    /\ UNCHANGED <<registry, config, frames, assigner>>

-----------------------------------------------------------------------------
(* _duplicate_in_game, _player_pool *)

\* _duplicate_in_game finding no duplicate at all.
NoDuplicateInGame(dups, game, player, h) == FALSE

DuplicateInGame(dups, game, player, h) ==
    CheckForPlayingSelf(dups, game \cup {player}, h) # NoException

\* The loop "for p in omitting_players", over the rest seq of them.
RECURSIVE OmitLoop(_, _)
OmitLoop(players, seq) ==
    IF seq = <<>> THEN [players |-> players, exc |-> NoException]
    ELSE LET p == Head(seq) IN
         IF p \notin players
         THEN [players |-> players, exc |-> Raised("InvalidPlayer", "str", {p})]
         ELSE OmitLoop(players \ {p}, Tail(seq))

\* _player_pool without "players |= set(self.duplicates.keys())".
PlayerPoolOfPlayers(matrix, dups, omitting_players, h) ==
    OmitLoop(DOMAIN matrix, Iter(omitting_players, h))

PlayerPool(matrix, dups, omitting_players, h) ==
    OmitLoop(DOMAIN matrix \cup DOMAIN dups, Iter(omitting_players, h))

-----------------------------------------------------------------------------
(* _all_possible_seedings *)

\* itertools.combinations(seq, r), in the order in which it yields them.
RECURSIVE Combinations(_, _)
Combinations(seq, r) ==
    IF r = 0 THEN << {} >>
    ELSE IF Len(seq) < r THEN <<>>
    ELSE LET with == Combinations(Tail(seq), r - 1) IN
         [i \in DOMAIN with |-> {Head(seq)} \cup with[i]] \o Combinations(Tail(seq), r)

\* The lists of seqs, one after the other.
RECURSIVE Chain(_, _, _)
Chain(seqs, from, to) ==
    IF from > to THEN <<>>
    ELSE IF from = to THEN seqs[from]
    ELSE LET mid == (from + to) \div 2 IN
         Chain(seqs, from, mid) \o Chain(seqs, mid + 1, to)

\* Called with a number of players that is a multiple of GameSize.
RECURSIVE AllPossibleSeedings(_, _)
AllPossibleSeedings(players, h) ==
    IF Cardinality(players) = GameSize THEN << <<players>> >>
    ELSE LET first == Combinations(Iter(players, h), GameSize)
             with  == [i \in DOMAIN first |->
                          LET rest == AllPossibleSeedings(players \ first[i], h) IN
                          [j \in DOMAIN rest |-> Append(rest[j], first[i])]]
         IN  Chain(with, 1, Len(with))

\* The list of (seeding, fitness) of the exhaustive method: the seedings
\* whose fitness raises InvalidPlayer are passed over.
ExhaustiveSeedings(matrix, dups, players, h) ==
    LET all    == AllPossibleSeedings(players, h)
        scored == [i \in DOMAIN all |-> <<all[i], SetFitness(matrix, dups, all[i], h)>>]
        kept   == SelectSeq(scored, LAMBDA e : e[2].exc = NoException)
    IN  [i \in DOMAIN kept |-> <<kept[i][1], kept[i][2].f>>]

-----------------------------------------------------------------------------
(* seed_games, _seed_games, _assign_players_wrapper *)

\* seedings.sort(key=itemgetter(1)); seedings[0]: the sort is stable, so
\* this is the first of the seedings of the least fitness.
SortedFirst(seedings) ==
    LET least == CHOOSE f \in {seedings[i][2] : i \in DOMAIN seedings} :
                     \A i \in DOMAIN seedings : f <= seedings[i][2]
    IN  seedings[CHOOSE i \in DOMAIN seedings :
                     /\ seedings[i][2] = least
                     /\ \A j \in 1 .. (i - 1) : seedings[j][2] # least]

SeedGamesCall(omitting_players, games, exc, ret) ==
    [Call("seed_games", NoId, NoId, {}, exc, ret)
        EXCEPT !.omitting_players = omitting_players, !.games = games]

\* seed_games raises exc.
SeedGamesRaises(omitting_players, exc) ==
    /\ last' = SeedGamesCall(omitting_players, <<>>, exc, 0)
    /\ pc' = "idle"
    /\ call' = NoCall
    /\ assign' = NoAssign
    /\ improve' = NoImprove

\* The end of seed_games, with the list seedings: seedings[0][1] is printed
\* and seedings[0][0] returned.
SeedGamesReturns(omitting_players, seedings) ==
    IF seedings = <<>>
    THEN SeedGamesRaises(omitting_players, Raised("IndexError", "list index out of range", {}))
    ELSE /\ last' = [SeedGamesCall(omitting_players, SortedFirst(seedings)[1],
                                   NoException, SortedFirst(seedings)[2])
                         EXCEPT !.seedings = seedings]
         /\ pc' = "idle"
         /\ call' = NoCall
         /\ assign' = NoAssign
         /\ improve' = NoImprove

\* One turn of "for i in range(starts)": _seed_games up to the first call of
\* _assign_players_to_games_randomly, with a copy of the pool.
SeedGamesRun(omitting_players, h, seedings) ==
    LET r == PlayerPool(games_played_matrix, duplicates, omitting_players, h) IN
    IF r.exc # NoException
    THEN SeedGamesRaises(omitting_players, r.exc)
    ELSE IF Cardinality(r.players) % GameSize # 0
    THEN SeedGamesRaises(omitting_players, Raised("InvalidPlayerCount", "str", {}))
    ELSE /\ pc' = "assign"
         /\ call' = [omitting_players |-> omitting_players, h |-> h,
                     players |-> r.players, seedings |-> seedings]
         /\ assign' = [players |-> r.players, discards |-> {}, game |-> {}, res |-> <<>>]
         /\ improve' = NoImprove
         /\ last' = last

\* The branch of the exhaustive method, as a whole.
SeedGamesExhaustive(omitting_players, h) ==
    LET r == PlayerPool(games_played_matrix, duplicates, omitting_players, h) IN
    IF r.exc # NoException
    THEN SeedGamesRaises(omitting_players, r.exc)
    ELSE IF Cardinality(r.players) % GameSize # 0
    THEN SeedGamesRaises(omitting_players, Raised("InvalidPlayerCount", "str", {}))
    ELSE SeedGamesReturns(omitting_players,
             ExhaustiveSeedings(games_played_matrix, duplicates, r.players, h))

seed_games(omitting_players, h) ==
    /\ last = Ready
    /\ pc = "idle"
    /\ IF games_played = 0 \/ seed_method = RANDOM
       THEN SeedGamesRun(omitting_players, h, <<>>)
       ELSE SeedGamesExhaustive(omitting_players, h)
    /\ UNCHANGED <<registry, config, assigner>>

\* The loop turning self.starts times whatever the history.
RunsAsConstructed == starts

\* The number of turns of "for i in range(starts)".
Runs == IF games_played > 0 THEN starts ELSE 1

\* _seed_games returns (seeding, fitness): the next turn of the loop, or
\* the end of seed_games.
SeedGamesRunReturns(seeding, fitness) ==
    LET seedings == Append(call.seedings, <<seeding, fitness>>) IN
    IF Len(seedings) < Runs
    THEN SeedGamesRun(call.omitting_players, call.h, seedings)
    ELSE SeedGamesReturns(call.omitting_players, seedings)

-----------------------------------------------------------------------------
(* _assign_players_to_games_randomly *)

\* random.choice(seq): the random source is taken to pick an end of seq.
RandomChoice(seq) == {seq[1], seq[Len(seq)]}

\* The positions of seq: random.choice(seq) picks the element at one of them.
Positions(seq) == [i \in DOMAIN seq |-> i]

\* s.pop(): an element of s, taken to be an end of its iteration.
SetPop(s, h) == {Iter(s, h)[1], Iter(s, h)[Cardinality(s)]}

\* The body of "while len(players) > 0" when random.choice gives p.
AssignPick(dups, frame, p, h) ==
    LET players == frame.players \ {p} IN
    IF DuplicateInGame(dups, frame.game, p, h)
    THEN [frame EXCEPT !.players = players, !.discards = @ \cup {p}]
    ELSE IF Cardinality(frame.game \cup {p}) = GameSize
    THEN [players |-> players \cup frame.discards, discards |-> {},
          game |-> {}, res |-> Append(frame.res, frame.game \cup {p})]
    ELSE [frame EXCEPT !.players = players, !.game = @ \cup {p}]

\* One turn of "while len(players) > 0".
assign_players_to_games_randomly ==
    /\ pc = "assign"
    /\ assign.players # {}
    /\ \E p \in RandomChoice(Iter(assign.players, call.h)) :
          assign' = AssignPick(duplicates, assign, p, call.h)
    /\ UNCHANGED <<registry, config, last, pc, call, improve, assigner>>

\* A wrapper that lets _AssignmentFailed go up to the caller of seed_games.
AssignPlayersWrapperRaises ==
    /\ pc = "assign"
    /\ assign.players = {}
    /\ SeedGamesRaises(call.omitting_players, Raised("_AssignmentFailed", "", {}))
    /\ UNCHANGED <<registry, config, assigner>>

\* The end of the loop: _AssignmentFailed is raised and the wrapper calls
\* again with a new copy of the pool, or res is returned; _seed_games then
\* returns it with fitness 0 or calls _improve_fitness, up to its loop.
assign_players_wrapper ==
    /\ pc = "assign"
    /\ assign.players = {}
    /\ IF assign.discards # {}
       THEN /\ assign' = [players |-> call.players, discards |-> {}, game |-> {}, res |-> <<>>]
            /\ UNCHANGED <<last, pc, call, improve>>
       ELSE IF games_played = 0
       THEN SeedGamesRunReturns(assign.res, 0)
       ELSE LET r == SetFitness(games_played_matrix, duplicates, assign.res, call.h) IN
            IF r.exc # NoException
            THEN SeedGamesRaises(call.omitting_players, r.exc)
            ELSE /\ pc' = "improve"
                 /\ improve' = [games |-> assign.res, best_set |-> assign.res,
                                best_fitness |-> r.f, t |-> 0]
                 /\ assign' = NoAssign
                 /\ UNCHANGED <<last, call>>
    /\ UNCHANGED <<registry, config, assigner>>

-----------------------------------------------------------------------------
(* _improve_fitness *)

\* A swap that hands p1 over and puts p2 back where it was.
SwapOneWay(games, i1, i2, p1, p2) ==
    [[games EXCEPT ![i1] = @ \ {p1}] EXCEPT ![i2] = @ \cup {p1}]

\* g1 = games[i1] and g2 = games[i2]; p1 = g1.pop(); p2 = g2.pop();
\* g1.add(p2); g2.add(p1)
Swap(games, i1, i2, p1, p2) ==
    LET popped1 == [games EXCEPT ![i1] = @ \ {p1}]
        popped2 == [popped1 EXCEPT ![i2] = @ \ {p2}]
        added1  == [popped2 EXCEPT ![i1] = @ \cup {p2}]
    IN  [added1 EXCEPT ![i2] = @ \cup {p1}]

\* The except clause leaving the games as the swap made them.
SwapKept(games, i1, i2, p1, p2) == games

\* g1.remove(p2); g2.remove(p1); g1.add(p1); g2.add(p2)
SwapBack(games, i1, i2, p1, p2) ==
    LET removed1 == [games EXCEPT ![i1] = @ \ {p2}]
        removed2 == [removed1 EXCEPT ![i2] = @ \ {p1}]
        added1   == [removed2 EXCEPT ![i1] = @ \cup {p1}]
    IN  [added1 EXCEPT ![i2] = @ \cup {p2}]

\* The body of "for t in range(self.iterations)" with these picks.
ImproveStep(matrix, dups, frame, i1, i2, p1, p2, h) ==
    LET games == Swap(frame.games, i1, i2, p1, p2)
        r     == SetFitness(matrix, dups, games, h)
    IN  IF r.exc # NoException
        THEN [frame EXCEPT !.games = SwapBack(games, i1, i2, p1, p2), !.t = @ + 1]
        ELSE IF r.f < frame.best_fitness
        THEN [games |-> games, best_set |-> games, best_fitness |-> r.f, t |-> frame.t + 1]
        ELSE [frame EXCEPT !.games = games, !.t = @ + 1]

\* One turn of the loop; random.choice(games) raises IndexError when games
\* is empty.
improve_fitness ==
    /\ pc = "improve"
    /\ improve.t < iterations
    /\ IF improve.games = <<>>
       THEN SeedGamesRaises(call.omitting_players,
                            Raised("IndexError", "Cannot choose from an empty sequence", {}))
       ELSE \E i1 \in RandomChoice(Positions(improve.games)),
               i2 \in RandomChoice(Positions(improve.games)) :
            \E p1 \in SetPop(improve.games[i1], call.h) :
            \E p2 \in SetPop(IF i1 = i2 THEN improve.games[i1] \ {p1}
                                        ELSE improve.games[i2], call.h) :
               /\ improve' = ImproveStep(games_played_matrix, duplicates, improve,
                                         i1, i2, p1, p2, call.h)
               /\ UNCHANGED <<last, pc, call, assign>>
    /\ UNCHANGED <<registry, config, assigner>>

\* A return of the games as the walk left them, with the best fitness.
ImproveFitnessReturnsWalk ==
    /\ pc = "improve"
    /\ improve.t >= iterations
    /\ SeedGamesRunReturns(improve.games, improve.best_fitness)
    /\ UNCHANGED <<registry, config, assigner>>

\* The end of the loop: _improve_fitness returns (best_set, best_fitness),
\* and _seed_games returns them.
improve_fitness_returns ==
    /\ pc = "improve"
    /\ improve.t >= iterations
    /\ SeedGamesRunReturns(improve.best_set, improve.best_fitness)
    /\ UNCHANGED <<registry, config, assigner>>

-----------------------------------------------------------------------------
(* The callers *)

\* The caller takes the result (or catches the exception) and goes on.
caller_continues ==
    /\ last # Ready
    /\ last' = Ready
    /\ UNCHANGED <<registry, config, frames, assigner>>

Next ==
    \/ caller_continues
    \/ \E player \in NextNew \cup DOMAIN duplicates \cup {"A"} : add_player(player)
    \/ \E player \in DuplicateInputs \cup {"A"}, new_key \in NextNew \cup DOMAIN duplicates \cup {"A"} :
           duplicate_player(player, new_key)
    \/ \E game \in GameInputs, h \in HashOrders : add_played_game(game, h)
    \/ \E game \in GameInputs, h \in HashOrders : fitness_score(game, h)
    \/ \E games \in GameListInputs, h \in HashOrders : set_fitness(games, h)

Spec == Init /\ [][Next]_vars

-----------------------------------------------------------------------------
(* The seeding of a round *)

\* The calls that set a tournament up before its rounds are seeded.
AddPlayers(seq) == [i \in DOMAIN seq |-> <<"add_player", seq[i]>>]

Seven == AddPlayers(<<"A", "B", "C", "D", "E", "F", "G">>)
Twelve == Seven \o AddPlayers(<<"H", "I", "J", "K", "L">>)

Setups ==
    { Seven,
      Seven \o << <<"duplicate_player", "G", "X">> >>,
      Twelve \o AddPlayers(<<"X", "Y">>),
      Twelve \o << <<"duplicate_player", "G", "X">>, <<"duplicate_player", "E", "Y">> >>,
      Twelve \o << <<"duplicate_player", "G", "X">>, <<"duplicate_player", "G", "Y">> >>,
      Twelve \o << <<"duplicate_player", "G", "X">>, <<"add_player", "X">>,
                   <<"duplicate_player", "X", "Y">> >> }

\* The games recorded before the round is seeded: none, or one.
Histories == {<<>>, << <<"add_played_game", {"A", "B", "C", "D", "E", "F", "G"}>> >>}

\* The state after the call c in the state s.
AfterCall(s, c) ==
    CASE c[1] = "add_player" ->
           [s EXCEPT !.matrix = AddPlayerResult(s.matrix, c[2]).matrix]
      [] c[1] = "duplicate_player" ->
           [s EXCEPT !.dups = DuplicatePlayerResult(s.matrix, s.dups, c[2], c[3]).duplicates]
      [] c[1] = "add_played_game" ->
           LET r == AddPlayedGameResult(s.matrix, s.dups, s.played, c[2], IdOrder) IN
           [s EXCEPT !.matrix = r.matrix, !.played = r.games_played]

RECURSIVE AfterCalls(_, _)
AfterCalls(s, calls) ==
    IF calls = <<>> THEN s ELSE AfterCalls(AfterCall(s, Head(calls)), Tail(calls))

\* The arguments of GameSeeder(): starts and iterations are kept by the
\* random method only (0 stands for the attribute that is not there).
Constructions ==
    {[seed_method |-> RANDOM, starts |-> s, iterations |-> n] :
        s \in StartsInputs, n \in 0 .. MaxIterations}
    \cup {[seed_method |-> EXHAUSTIVE, starts |-> 0, iterations |-> 0]}

\* The sets of players seed_games is asked to omit.
OmitInputs == {{}, {"X"}, {"G"}, {"Z"}}

\* The state after one of setups, one of Histories and one of constructions.
SeedInitOf(setups, constructions) ==
    \E setup \in setups, history \in Histories, c \in constructions :
       LET s == AfterCalls([matrix |-> EmptyDict, dups |-> EmptyDict, played |-> 0],
                           setup \o history)
       IN  /\ games_played = s.played
           /\ games_played_matrix = s.matrix
           /\ duplicates = s.dups
           /\ seed_method = c.seed_method
           /\ starts = c.starts
           /\ iterations = c.iterations
           /\ last = Ready
           /\ Idle
           /\ NewAssigner

SeedInit == SeedInitOf(Setups, Constructions)

SeedNext ==
    \/ caller_continues
    \/ \E omitting_players \in OmitInputs, h \in HashOrders : seed_games(omitting_players, h)
    \/ assign_players_to_games_randomly
    \/ assign_players_wrapper
    \/ improve_fitness
    \/ improve_fitness_returns

SeedSpec == SeedInit /\ [][SeedNext]_vars

-----------------------------------------------------------------------------
(* The seeding of a round, the random draws being fair *)

\* The frame of _assign_players_to_games_randomly as it is called.
NewAttempt(players) == [players |-> players, discards |-> {}, game |-> {}, res |-> <<>>]

\* The frames of an attempt from frame that ends with every seat-holder at
\* a table, the first found; none if there is no such attempt.
RECURSIVE Finish(_, _, _)
Finish(dups, frame, h) ==
    IF frame.players = {}
    THEN IF frame.discards = {} THEN <<frame>> ELSE <<>>
    ELSE LET picks  == Iter(frame.players, h)
             first  == Finish(dups, AssignPick(dups, frame, picks[1], h), h)
             second == Finish(dups, AssignPick(dups, frame, picks[Len(picks)], h), h)
         IN  IF first # <<>> THEN <<frame>> \o first
             ELSE IF second # <<>> THEN <<frame>> \o second
             ELSE <<>>

\* Every attempt from frame ends with every seat-holder at a table.
RECURSIVE Safe(_, _, _)
Safe(dups, frame, h) ==
    IF frame.players = {} THEN frame.discards = {}
    ELSE \A p \in RandomChoice(Iter(frame.players, h)) :
            Safe(dups, AssignPick(dups, frame, p, h), h)

\* Tournaments with a duplicate: one where an attempt can fail, one where
\* all do.
FairSetups ==
    { Twelve \o << <<"duplicate_player", "G", "X">>, <<"add_player", "Y">> >>,
      Twelve \o << <<"duplicate_player", "G", "X">>, <<"duplicate_player", "G", "Y">> >> }

FairConstructions ==
    {[seed_method |-> RANDOM, starts |-> s, iterations |-> n] :
        s \in {DefaultStarts}, n \in {1}}

\* The duplicates, pools and iteration orders seed_games can run with.
PoolInputs ==
    LET after(setup) ==
            AfterCalls([matrix |-> EmptyDict, dups |-> EmptyDict, played |-> 0], setup)
        pool(s, o, h) == PlayerPool(s.matrix, s.dups, o, h)
    IN  {<<after(x[1]).dups, pool(after(x[1]), x[2], x[3]).players, x[3]>> :
            x \in {y \in FairSetups \X OmitInputs \X HashOrders :
                      /\ pool(after(y[1]), y[2], y[3]).exc = NoException
                      /\ Cardinality(pool(after(y[1]), y[2], y[3]).players) % GameSize = 0}}

\* For each of them, the frames of one attempt that ends well, from the
\* first pick to the frame from which no attempt fails.
FairFrames ==
    UNION {LET attempt == Finish(x[1], NewAttempt(x[2]), x[3])
           IN  {attempt[i] : i \in {j \in 2 .. Len(attempt) :
                                      ~Safe(x[1], attempt[j - 1], x[3])}} :
           x \in PoolInputs}

\* The loops run on, and the random source is fair: a pick that can be made
\* again and again is made in the end.
SeedFairness ==
    /\ WF_vars(assign_players_to_games_randomly)
    /\ WF_vars(assign_players_wrapper)
    /\ \A frame \in FairFrames :
          SF_vars(assign_players_to_games_randomly /\ assign' = frame)

SeedFairInit == SeedInitOf(FairSetups, FairConstructions)

SeedFairSpec == SeedFairInit /\ [][SeedNext]_vars /\ SeedFairness


-----------------------------------------------------------------------------
(* PowerAssignment *)

\* A call of a method of PowerAssignment, with what it raised or returned.
PowerCall(op, for_player, power, exc) ==
    [op |-> op, for_player |-> for_player, power |-> power, powers_played |-> <<>>,
     grouping |-> <<>>, value |-> 0, for_players |-> <<>>, exc |-> exc, ret |-> EmptyDict]

\* "p not in self.all_powers"
InAllPowers(p) == \E i \in DOMAIN all_powers : all_powers[i] = p

\* The elements of the lists of a list, in the order of "for g in grouping:
\* for p in g".
RECURSIVE Flatten(_)
Flatten(grouping) ==
    IF grouping = <<>> THEN <<>> ELSE Head(grouping) \o Flatten(Tail(grouping))

\* The first element of seq that is no power, if there is one.
FirstInvalid(seq) ==
    LET bad == SelectSeq(seq, LAMBDA p : ~InAllPowers(p)) IN
    IF bad = <<>> THEN <<>> ELSE <<Head(bad)>>

SetOf(seq) == {seq[i] : i \in DOMAIN seq}

AddGroupingResult(registered, grouping, value) ==
    LET listed == Flatten(grouping) IN
    IF FirstInvalid(listed) # <<>>
    THEN [groupings |-> registered,
          exc |-> Raised("InvalidPower", "", {FirstInvalid(listed)[1]})]
    ELSE IF SetOf(all_powers) \ SetOf(listed) # {}
    THEN [groupings |-> registered,
          exc |-> Raised("MissingPower", "", SetOf(all_powers) \ SetOf(listed))]
    ELSE [groupings |-> Append(registered, <<grouping, value>>), exc |-> NoException]

add_grouping(grouping, value) ==
    /\ last = Ready
    /\ Len(groupings) < MaxGroupings
    /\ LET r == AddGroupingResult(groupings, grouping, value) IN
       /\ groupings' = r.groupings
       /\ last' = [PowerCall("add_grouping", NoId, NoId, r.exc)
                      EXCEPT !.grouping = grouping, !.value = value]
    /\ UNCHANGED <<registry, config, frames, previous_games, lists>>

\* set_earlier_games(for_player, powers_played), powers_played being the
\* list object l: previous_games holds that object, not a copy of it.
SetEarlierGamesResult(previous, heap, for_player, l) ==
    IF FirstInvalid(heap[l]) # <<>>
    THEN [previous_games |-> previous,
          exc |-> Raised("InvalidPower", "", {FirstInvalid(heap[l])[1]})]
    ELSE [previous_games |-> DictPut(previous, for_player, l), exc |-> NoException]

set_earlier_games(for_player, l) ==
    /\ last = Ready
    /\ LET r == SetEarlierGamesResult(previous_games, lists, for_player, l) IN
       /\ previous_games' = r.previous_games
       /\ last' = [PowerCall("set_earlier_games", for_player, NoId, r.exc)
                      EXCEPT !.powers_played = lists[l]]
    /\ UNCHANGED <<registry, config, frames, groupings, lists>>

\* An add_power_played that puts power in the place of the list.
AddPowerPlayedOverwrites(previous, heap, for_player, power) ==
    IF ~InAllPowers(power)
    THEN [lists |-> heap, exc |-> Raised("NameError", "name 'p' is not defined", {})]
    ELSE IF for_player \notin DOMAIN previous
    THEN [lists |-> heap, exc |-> Raised("KeyError", "", {for_player})]
    ELSE [lists |-> [heap EXCEPT ![previous[for_player]] = <<power>>],
          exc |-> NoException]

\* "raise InvalidPower(p)" names p, which is not defined: NameError.
\* self.previous_games[for_player] raises KeyError for a player with no
\* list; .append changes the list object itself.
AddPowerPlayedResult(previous, heap, for_player, power) ==
    IF ~InAllPowers(power)
    THEN [lists |-> heap, exc |-> Raised("NameError", "name 'p' is not defined", {})]
    ELSE IF for_player \notin DOMAIN previous
    THEN [lists |-> heap, exc |-> Raised("KeyError", "", {for_player})]
    ELSE [lists |-> [heap EXCEPT ![previous[for_player]] = Append(@, power)],
          exc |-> NoException]

add_power_played(for_player, power) ==
    /\ last = Ready
    /\ for_player \in DOMAIN previous_games
          => Len(lists[previous_games[for_player]]) < MaxHistory
    /\ LET r == AddPowerPlayedResult(previous_games, lists, for_player, power) IN
       /\ lists' = r.lists
       /\ last' = PowerCall("add_power_played", for_player, power, r.exc)
    /\ UNCHANGED <<registry, config, frames, previous_games, groupings>>

\* A _calculate_fitness that finds no power played before.
CalculateFitnessOfNone(previous, heap, power_assignment, order) == 0

\* self.previous_games[k], or KeyError
PreviousGames(previous, heap, k) ==
    IF k \in DOMAIN previous THEN <<heap[previous[k]]>> ELSE <<>>

\* "for g in grouping: if v in g: break": the first group holding v, the
\* last group when none does.
RECURSIVE GroupOf(_, _)
GroupOf(grouping, v) ==
    IF Len(grouping) = 1 \/ v \in SetOf(Head(grouping)) THEN Head(grouping)
    ELSE GroupOf(Tail(grouping), v)

\* "for i in self.previous_games[k]: if i in g: score += 1" (for "i == v",
\* g holds v alone), over the rest played of the list.
RECURSIVE CountLoop(_, _)
CountLoop(played, g) ==
    IF played = <<>> THEN 0
    ELSE (IF Head(played) \in g THEN 1 ELSE 0) + CountLoop(Tail(played), g)

\* The keys of a dict, in the order they were set.
Keys(d, order) == SelectSeq(order, LAMBDA k : k \in DOMAIN d)

\* "for k,v in power_assignment.items()" of _calculate_group_fitness, over
\* the rest items of the keys.
RECURSIVE GroupFitnessLoop(_, _, _, _, _)
GroupFitnessLoop(previous, heap, power_assignment, items, grouping) ==
    IF items = <<>> THEN 0
    ELSE LET k == Head(items)
             g == SetOf(GroupOf(grouping, power_assignment[k]))
             played == PreviousGames(previous, heap, k)
         IN  (IF played = <<>> THEN 0 ELSE CountLoop(played[1], g))
             + GroupFitnessLoop(previous, heap, power_assignment, Tail(items), grouping)

CalculateGroupFitness(previous, heap, power_assignment, order, grouping) ==
    GroupFitnessLoop(previous, heap, power_assignment, Keys(power_assignment, order),
                     grouping)

\* "for k,v in power_assignment.items()" of _calculate_fitness.
RECURSIVE FitnessOfItems(_, _, _, _)
FitnessOfItems(previous, heap, power_assignment, items) ==
    IF items = <<>> THEN 0
    ELSE LET k == Head(items)
             played == PreviousGames(previous, heap, k)
         IN  (IF played = <<>> THEN 0 ELSE CountLoop(played[1], {power_assignment[k]}))
             + FitnessOfItems(previous, heap, power_assignment, Tail(items))

CalculateFitness(previous, heap, power_assignment, order) ==
    FitnessOfItems(previous, heap, power_assignment, Keys(power_assignment, order))

\* _assign_remaining_powers: every assignment of the powers not in
\* used_powers to to_players, each call shuffling them into the order
\* shuffle.
RECURSIVE AssignRemainingPowers(_, _, _)
AssignRemainingPowers(used_powers, to_players, shuffle) ==
    LET player == Head(to_players)
        remaining_players == Tail(to_players)
        remaining_powers == SelectSeq(shuffle, LAMBDA q : q \notin SetOf(used_powers))
        with(power) ==
            IF remaining_players = <<>> THEN << DictPut(EmptyDict, player, power) >>
            ELSE LET rest == AssignRemainingPowers(Append(used_powers, power),
                                                   remaining_players, shuffle)
                 IN  [n \in DOMAIN rest |-> DictPut(rest[n], player, power)]
    IN  Chain([n \in DOMAIN remaining_powers |-> with(remaining_powers[n])],
              1, Len(remaining_powers))

\* The loop "for g, weight in self.groupings", over the rest of them.
RECURSIVE GroupingsLoop(_, _, _, _, _)
GroupingsLoop(previous, heap, a, order, rest) ==
    IF rest = <<>> THEN 0
    ELSE Head(rest)[2] * CalculateGroupFitness(previous, heap, a, order, Head(rest)[1])
         + GroupingsLoop(previous, heap, a, order, Tail(rest))

\* The score best_power_assignment gives the assignment a.
Score(previous, heap, registered, a, order) ==
    GroupingsLoop(previous, heap, a, order, registered)
    + CalculateFitness(previous, heap, a, order)

BestPowerAssignmentResult(previous, heap, registered, for_players, shuffle) ==
    IF Len(for_players) # Len(all_powers)
    THEN [ret |-> EmptyDict, score |-> 0,
          exc |-> Raised("WrongPlayerCount", "", {Len(for_players)})]
    ELSE LET assignments == AssignRemainingPowers(<<>>, for_players, shuffle)
             results == [n \in DOMAIN assignments |->
                           <<assignments[n],
                             Score(previous, heap, registered, assignments[n],
                                   Reverse(for_players))>>]
         IN  [ret |-> SortedFirst(results)[1], score |-> SortedFirst(results)[2],
              exc |-> NoException]

best_power_assignment(for_players, shuffle) ==
    /\ last = Ready
    /\ LET r == BestPowerAssignmentResult(previous_games, lists, groupings,
                                          for_players, shuffle) IN
       last' = [PowerCall("best_power_assignment", NoId, NoId, r.exc)
                   EXCEPT !.for_players = for_players, !.ret = r.ret]
    /\ UNCHANGED <<registry, config, frames, assigner>>

PowerNext ==
    \/ caller_continues
    \/ \E input \in GroupingInputs : add_grouping(input[1], input[2])
    \/ \E for_player \in PowerPlayers, l \in DOMAIN CallerLists :
          set_earlier_games(for_player, l)
    \/ \E for_player \in PowerPlayers, power \in SetOf(all_powers) \cup {UnknownPower} :
          add_power_played(for_player, power)
    \/ \E for_players \in ForPlayersInputs, shuffle \in Shuffles :
          best_power_assignment(for_players, shuffle)

PowerSpec == Init /\ [][PowerNext]_vars

-----------------------------------------------------------------------------
(* What the claims speak of *)

Players == DOMAIN games_played_matrix
Aliases == DOMAIN duplicates

\* matrix[p][q], an absent entry counting as 0
Count(matrix, p, q) ==
    IF p \in DOMAIN matrix /\ q \in DOMAIN matrix[p] THEN matrix[p][q] ELSE 0

\* The participant a seat-holder resolves to: the target of a duplicate,
\* the player itself otherwise.
Main(dups, x) == IF x \in DOMAIN dups THEN dups[x] ELSE x

Resolved(dups, game) == {Main(dups, x) : x \in game}

\* The seat-holders of game that share their participant with another one.
Colliding(dups, game) ==
    {x \in game : \E y \in game : y # x /\ Main(dups, y) = Main(dups, x)}

Known(game) == game \subseteq Players \cup Aliases

\* The sum of matrix[p][q] over the ordered pairs p # q of the set t.
RECURSIVE SumCounts(_, _)
SumCounts(matrix, pairs) ==
    IF pairs = {} THEN 0
    ELSE LET x == CHOOSE x \in pairs : TRUE IN
         Count(matrix, x[1], x[2]) + SumCounts(matrix, pairs \ {x})

PairSum(matrix, t) == SumCounts(matrix, {x \in t \X t : x[1] # x[2]})

\* The largest count of the matrix (0 when it holds none).
MaxCount(matrix) ==
    LET counts == {Count(matrix, p, q) : p \in Ids, q \in Ids} IN
    CHOOSE c \in counts : \A d \in counts : d <= c

\* The pool of a seeding: the players and the duplicates, but for the omitted.
Pool(omitting_players) == (Players \cup Aliases) \ omitting_players

\* The fitness of a table and of a seeding, from the counts of the pairs of
\* its resolved participants.
TableFitness(table) == PairSum(games_played_matrix, Resolved(duplicates, table))

\* The same number, counted: the triples (p, q, c) with p and q distinct
\* resolved participants of the table and c one of the games they shared.
SharedGames(table) ==
    LET t == Resolved(duplicates, table) IN
    Cardinality({x \in t \X t \X (1 .. MaxCount(games_played_matrix)) :
                    x[1] # x[2] /\ x[3] <= Count(games_played_matrix, x[1], x[2])})

\* The ways of seating pool at tables of seven: each a set of tables.
RECURSIVE Partitions(_)
Partitions(pool) ==
    IF pool = {} THEN {{}}
    ELSE LET x == CHOOSE x \in pool : TRUE
             tables == {{x} \cup s : s \in {t \in SUBSET (pool \ {x}) :
                                                Cardinality(t) = GameSize - 1}}
         IN  UNION {{{table} \cup rest : rest \in Partitions(pool \ table)} :
                       table \in tables}

CollisionFree(tables) == \A table \in tables : Colliding(duplicates, table) = {}

RECURSIVE SharedGamesOfAll(_)
SharedGamesOfAll(tables) ==
    IF tables = {} THEN 0
    ELSE LET table == CHOOSE table \in tables : TRUE IN
         SharedGames(table) + SharedGamesOfAll(tables \ {table})

\* The fitnesses of the seedings of pool without a self-collision.
Fitnesses(pool) ==
    {SharedGamesOfAll(tables) : tables \in {t \in Partitions(pool) : CollisionFree(t)}}

\* The least of them.
Optimum(pool) == CHOOSE f \in Fitnesses(pool) : \A g \in Fitnesses(pool) : f <= g

RECURSIVE TotalFitness(_)
TotalFitness(tables) ==
    IF tables = <<>> THEN 0 ELSE TableFitness(Head(tables)) + TotalFitness(Tail(tables))

SelfCollision(exc) == exc.type = "InvalidPlayer" /\ exc.text = "Duplicate players"

-----------------------------------------------------------------------------
(* C1: a seeding seed_games returns, by either method, is a partition of   *)
(* the pool: every table has seven seat-holders, every seat-holder of the  *)
(* pool (players and duplicates but for the omitted) is at exactly one     *)
(* table, no table seats anyone else, and no two seat-holders of a table   *)
(* resolve to the same participant.                                        *)
C1_SeedingIsPartition ==
    (last.op = "seed_games" /\ last.exc = NoException) =>
       LET tables == last.games
           pool   == Pool(last.omitting_players)
       IN  /\ \A i \in DOMAIN tables : Cardinality(tables[i]) = GameSize
           /\ \A x \in pool : Cardinality({i \in DOMAIN tables : x \in tables[i]}) = 1
           /\ \A i \in DOMAIN tables : tables[i] \subseteq pool
           /\ \A i \in DOMAIN tables : Colliding(duplicates, tables[i]) = {}

\* Two tables seeded after a recorded game, with duplicates in the pool and
\* fewer repeated pairings than the recorded table has.
C1_Witness ==
    /\ last.op = "seed_games" /\ last.exc = NoException
    /\ games_played > 0
    /\ Len(last.games) = 2
    /\ Cardinality(Aliases) = 2
    /\ \E i \in DOMAIN last.games : Aliases \subseteq last.games[i]
    /\ last.ret < GameSize * (GameSize - 1)

(* C2: the matrix of shared games is symmetric in every reachable state:   *)
(* matrix[a][b] = matrix[b][a] for all a and b, an absent entry counting   *)
(* as 0, whether the calls made returned or raised.                        *)
C2_MatrixSymmetric ==
    \A a \in Ids, b \in Ids :
        Count(games_played_matrix, a, b) = Count(games_played_matrix, b, a)

(* C3: an add_played_game that returns has raised the count of every pair  *)
(* of distinct resolved participants of the game by exactly 1, in both     *)
(* directions, has left every other count as it was, and has raised        *)
(* games_played by 1.                                                      *)
C3_RecordAddsOne ==
    [][(last'.op = "add_played_game" /\ last'.exc = NoException) =>
          LET t == Resolved(duplicates, last'.game) IN
          /\ games_played' = games_played + 1
          /\ \A p \in Ids, q \in Ids :
                Count(games_played_matrix', p, q) =
                    Count(games_played_matrix, p, q)
                    + (IF p # q /\ p \in t /\ q \in t THEN 1 ELSE 0)]_vars

\* The same game, one seat held by a duplicate, recorded for the second time.
C3_Witness ==
    /\ last.op = "add_played_game" /\ last.exc = NoException
    /\ games_played = 2
    /\ last.game \cap Aliases # {}
    /\ \A p \in Resolved(duplicates, last.game), q \in Resolved(duplicates, last.game) :
          p # q => Count(games_played_matrix, p, q) = 2
    /\ \E p \in Players, q \in Players : p # q /\ Count(games_played_matrix, p, q) = 0

(* C4: the fitness _fitness_score returns for a game of known seat-holders *)
(* without a self-collision is the sum of matrix[p][q] over the ordered    *)
(* pairs p # q of the game's resolved participants: a duplicate scores as  *)
(* its player does.                                                        *)
C4_FitnessIsPairSum ==
    (/\ last.op = "_fitness_score" /\ last.exc = NoException
     /\ Known(last.game) /\ Colliding(duplicates, last.game) = {})
    => last.ret = PairSum(games_played_matrix, Resolved(duplicates, last.game))

\* A seven-seat game with a duplicate in it that was recorded before: 42.
C4_Witness ==
    /\ last.op = "_fitness_score" /\ last.exc = NoException
    /\ Cardinality(last.game) = GameSize
    /\ last.game \cap Aliases # {}
    /\ Known(last.game) /\ Colliding(duplicates, last.game) = {}
    /\ games_played = 1
    /\ last.ret = GameSize * (GameSize - 1)

C6_DuplicatesWellFormed ==
    [][/\ DOMAIN duplicates' \cap DOMAIN games_played_matrix' = {}
       /\ \A k \in DOMAIN duplicates' : duplicates'[k] \in DOMAIN games_played_matrix'
       /\ \A k \in DOMAIN duplicates :
             k \in DOMAIN duplicates' /\ duplicates'[k] = duplicates[k]]_vars

(* C7: duplicate_player(player, new_key) raises InvalidPlayer when player  *)
(* is no player; otherwise it raises InvalidKey when new_key is a player   *)
(* or a duplicate already; in both cases players and duplicates stay as    *)
(* they were. Otherwise it records new_key as a duplicate of player.       *)
C7_DuplicatePlayer ==
    [][last'.op = "duplicate_player" =>
          LET player == last'.player
              new_key == last'.key
          IN  /\ games_played_matrix' = games_played_matrix
              /\ IF player \notin Players
                 THEN last'.exc.type = "InvalidPlayer" /\ duplicates' = duplicates
                 ELSE IF new_key \in Players \/ new_key \in Aliases
                 THEN last'.exc.type = "InvalidKey" /\ duplicates' = duplicates
                 ELSE /\ last'.exc = NoException
                      /\ DOMAIN duplicates' = DOMAIN duplicates \cup {new_key}
                      /\ duplicates'[new_key] = player
                      /\ \A k \in DOMAIN duplicates : duplicates'[k] = duplicates[k]]_vars

\* A second duplicate of one player has been recorded.
C7_Witness ==
    /\ last.op = "duplicate_player" /\ last.exc = NoException
    /\ \E k \in Aliases : k # last.key /\ duplicates[k] = last.player

(* C8: add_played_game and _fitness_score reject a seven-seat game with    *)
(* the self-collision error exactly when two of its seat-holders resolve   *)
(* to the same participant, and the error names, of the seat-holders,      *)
(* those that collide and no other.                                        *)
C8_SelfCollisionNamesColliders ==
    (last.op \in {"add_played_game", "_fitness_score"}
     /\ Cardinality(last.game) = GameSize)
    => /\ SelfCollision(last.exc) <=> Colliding(duplicates, last.game) # {}
       /\ SelfCollision(last.exc)
          => last.exc.names \cap last.game = Colliding(duplicates, last.game)

(* C9: add_played_game raises InvalidPlayerCount for a game that has not   *)
(* seven seats, raises InvalidPlayer for a seven-seat game with a          *)
(* seat-holder that is neither a player nor a duplicate, and accepts a     *)
(* seven-seat game of known seat-holders of which no two collide.          *)
C9_AddPlayedGameErrors ==
    last.op = "add_played_game" =>
       /\ Cardinality(last.game) # GameSize => last.exc.type = "InvalidPlayerCount"
       /\ (Cardinality(last.game) = GameSize /\ ~Known(last.game))
          => last.exc.type = "InvalidPlayer"
       /\ (Cardinality(last.game) = GameSize /\ Known(last.game)
           /\ Colliding(duplicates, last.game) = {})
          => last.exc = NoException

(* C10: the pool of seed_games is the players and the duplicates but for   *)
(* the omitted: a seeding it returns seats exactly them. By either method  *)
(* it raises InvalidPlayer when an omitted identity is neither a player    *)
(* nor a duplicate, and InvalidPlayerCount when the size of the pool is    *)
(* no multiple of seven; it returns no seeding then.                       *)
C10_PoolAndItsErrors ==
    last.op = "seed_games" =>
       LET all  == Players \cup Aliases
           pool == Pool(last.omitting_players)
       IN  /\ ~(last.omitting_players \subseteq all)
              => last.exc.type = "InvalidPlayer" /\ last.games = <<>>
           /\ (last.omitting_players \subseteq all /\ Cardinality(pool) % GameSize # 0)
              => last.exc.type = "InvalidPlayerCount" /\ last.games = <<>>
           /\ last.exc = NoException
              => UNION {last.games[i] : i \in DOMAIN last.games} = pool

\* The exhaustive method, after a recorded game, with a player omitted from
\* a pool of fourteen.
C10_Witness ==
    /\ last.op = "seed_games" /\ last.exc.type = "InvalidPlayerCount"
    /\ seed_method = EXHAUSTIVE /\ games_played > 0
    /\ last.omitting_players # {}
    /\ last.omitting_players \subseteq Players \cup Aliases
    /\ Cardinality(Players \cup Aliases) = 2 * GameSize

(* C11: a seed_games that goes the random way (random method, or no game   *)
(* recorded yet) and returns has made self.starts runs of _seed_games when *)
(* a game is recorded, and one run, of fitness 0 and without               *)
(* _improve_fitness, when none is, whatever starts and seed_method are;    *)
(* the seeding returned is that of one of the runs and its fitness is at   *)
(* most the fitness of every run.                                          *)
C11_RunsAndBest ==
    /\ pc = "improve" => games_played > 0
    /\ (/\ last.op = "seed_games" /\ last.exc = NoException
        /\ (games_played = 0 \/ seed_method = RANDOM))
       => /\ Len(last.seedings) = (IF games_played > 0 THEN starts ELSE 1)
          /\ games_played = 0 => last.seedings[1][2] = 0
          /\ \E i \in DOMAIN last.seedings : last.seedings[i][1] = last.games
          /\ \A i \in DOMAIN last.seedings :
                TotalFitness(last.games) <= last.seedings[i][2]

\* Two runs after a recorded game, the second better than the first.
C11_Witness ==
    /\ last.op = "seed_games" /\ last.exc = NoException
    /\ seed_method = RANDOM /\ games_played > 0
    /\ starts = 2 /\ Len(last.seedings) = 2
    /\ last.seedings[2][2] < last.seedings[1][2]
    /\ last.games = last.seedings[2][1]

(* C13: with the exhaustive method and a recorded game, seed_games scores  *)
(* every seeding of the pool at tables of seven but those with a           *)
(* self-collision, which it passes over, and, when there is a seeding      *)
(* without one, returns such a seeding, of the least fitness of them all.  *)
C13_ExhaustiveIsOptimal ==
    (/\ last.op = "seed_games" /\ seed_method = EXHAUSTIVE /\ games_played > 0
     /\ last.exc.type \notin {"InvalidPlayer", "InvalidPlayerCount"})
    => LET pool == Pool(last.omitting_players)
           free == {t \in Partitions(pool) : CollisionFree(t)}
           tables(seeding) == {seeding[i] : i \in DOMAIN seeding}
       IN  /\ {tables(last.seedings[i][1]) : i \in DOMAIN last.seedings} = free
           /\ free # {}
              => /\ last.exc = NoException
                 /\ tables(last.games) \in free
                 /\ last.ret = Optimum(pool)
                 /\ TotalFitness(last.games) = Optimum(pool)

\* tables seats every seat-holder of pool once, seven to a table.
IsSeeding(tables, pool) ==
    /\ UNION tables = pool
    /\ \A t \in tables : Cardinality(t) = GameSize
    /\ \A t, u \in tables : t # u => t \cap u = {}

RandomReturn ==
    /\ last.op = "seed_games" /\ last.exc = NoException
    /\ seed_method = RANDOM /\ games_played > 0

Min(a, b) == IF a <= b THEN a ELSE b

\* The list of (seeding, fitness) of the call of seed_games under way, or
\* of the one that has just returned.
SeedingsSoFar == IF pc = "idle" THEN last.seedings ELSE call.seedings

\* The fitness of a list of tables, counted.
WalkFitness(games) == SharedGamesOfAll({games[i] : i \in DOMAIN games})

(* C14: _improve_fitness returns the best snapshot. While it runs,          *)
(* best_fitness is the fitness of best_set and at most the fitness of the  *)
(* games the walk is at, and before the first turn best_set is the games   *)
(* given. A turn of the loop never raises best_fitness; best_set changes   *)
(* only when best_fitness falls, and then to a copy of the games the walk  *)
(* is at: best_fitness is thus the least fitness of the games given and of *)
(* those the walk has been at. What is returned is (best_set,              *)
(* best_fitness).                                                          *)
C14_BestSnapshot ==
    /\ [](pc = "improve"
            => /\ improve.best_fitness = WalkFitness(improve.best_set)
               /\ improve.best_fitness <= WalkFitness(improve.games)
               /\ (improve.t = 0 => improve.best_set = improve.games))
    /\ [][/\ (pc = "improve" /\ pc' = "improve")
              => /\ improve'.best_fitness <= improve.best_fitness
                 /\ (improve'.best_fitness = improve.best_fitness
                       => improve'.best_set = improve.best_set)
                 /\ (improve'.best_fitness < improve.best_fitness
                       => improve'.best_set = improve'.games)
          /\ (pc = "improve" /\ pc' # "improve" /\ last'.exc = NoException)
              => SeedingsSoFar' =
                    Append(call.seedings, <<improve.best_set, improve.best_fitness>>)
          ]_vars

\* The walk has gone on, to worse games, from the snapshot it took.
C14_Witness ==
    /\ pc = "improve"
    /\ improve.t = iterations /\ iterations = MaxIterations
    /\ improve.best_set # improve.games
    /\ improve.best_fitness < TotalFitness(improve.games)
    /\ \E i \in DOMAIN call.seedings : call.seedings[i][2] > improve.best_fitness

\* games with p1 of table i1 and p2 of table i2 in each other's seat.
Exchanged(games, i1, i2, p1, p2) ==
    [i \in DOMAIN games |->
        IF i1 = i2 THEN games[i]
        ELSE IF i = i1 THEN (games[i] \ {p1}) \cup {p2}
        ELSE IF i = i2 THEN (games[i] \ {p2}) \cup {p1}
        ELSE games[i]]

TablesOf(games) == {games[i] : i \in DOMAIN games}

(* C19: while _improve_fitness runs, the working games are the pool at     *)
(* tables of seven, everyone once, with no self-collision. A turn of the   *)
(* loop leaves them as they were or with two seat-holders of two tables    *)
(* exchanged; as they were when the exchange makes a self-collision at     *)
(* either table, and when the same table was picked twice.                 *)
C19_WalkStaysASeeding ==
    /\ [](pc = "improve"
            => /\ Len(improve.games) * GameSize = Cardinality(call.players)
               /\ IsSeeding(TablesOf(improve.games), call.players)
               /\ CollisionFree(TablesOf(improve.games)))
    /\ [][(pc = "improve" /\ pc' = "improve")
             => \E i1, i2 \in DOMAIN improve.games :
                \E p1 \in improve.games[i1], p2 \in improve.games[i2] :
                   LET swapped == Exchanged(improve.games, i1, i2, p1, p2) IN
                   /\ p1 # p2
                   /\ improve'.games \in {improve.games, swapped}
                   /\ ~CollisionFree(TablesOf(swapped))
                         => improve'.games = improve.games
                   /\ i1 = i2 => improve'.games = improve.games
          ]_vars

\* After a turn of the loop the games are as given, and one of the swaps
\* the turn could make seats a duplicate with its player.
C19_Witness ==
    /\ pc = "improve"
    /\ improve.t = 1
    /\ improve.games = improve.best_set
    /\ Len(improve.games) = 2
    /\ \E p1 \in SetPop(improve.games[1], call.h), p2 \in SetPop(improve.games[2], call.h) :
          ~CollisionFree(TablesOf(Exchanged(improve.games, 1, 2, p1, p2)))

\* There is a way of seating pool at tables of seven with no self-collision.
Admits(pool) == \E tables \in Partitions(pool) : CollisionFree(tables)

(* C20: the random construction. An attempt that ends with the pool empty  *)
(* and discards left is given up: nothing reaches the caller of seed_games *)
(* and a new attempt starts from the whole pool. An attempt that ends with *)
(* no discards gives the pool at tables of seven, one table for every      *)
(* seven seat-holders, with no self-collision. When the pool can be seated *)
(* so, and the random draws are fair, an attempt ends so in the end.       *)
C20_ConstructionSucceeds ==
    /\ [][(pc = "assign" /\ assign.players = {} /\ assign.discards # {})
             => /\ pc' = "assign"
                /\ assign' = NewAttempt(call.players)
                /\ last' = last /\ call' = call
          ]_vars
    /\ []((pc = "assign" /\ assign.players = {} /\ assign.discards = {})
             => /\ Len(assign.res) * GameSize = Cardinality(call.players)
                /\ IsSeeding(TablesOf(assign.res), call.players)
                /\ CollisionFree(TablesOf(assign.res)))
    /\ [](last.exc.type # "_AssignmentFailed")
    /\ (pc = "assign" /\ assign = NewAttempt(call.players) /\ Admits(call.players))
          ~> (pc # "assign")

\* An attempt has failed for a pool that can be seated.
C20_Witness ==
    /\ pc = "assign"
    /\ assign.players = {} /\ assign.discards # {}
    /\ Cardinality(call.players) = 2 * GameSize
    /\ Admits(call.players)

-----------------------------------------------------------------------------
(* What the claims on PowerAssignment speak of *)

Powers == {all_powers[i] : i \in DOMAIN all_powers}

\* The powers a player has played, in order: none for a player with no list.
History(k) == IF k \in DOMAIN previous_games THEN lists[previous_games[k]] ELSE <<>>

Played(k) == {History(k)[n] : n \in DOMAIN History(k)}

(* C15: add_grouping(grouping, value) registers the grouping if and only   *)
(* if it lists every power exactly once. It raises InvalidPower when it    *)
(* lists something that is no power, MissingPower when it lists only       *)
(* powers but not all of them, and something when it lists a power twice,  *)
(* in one group or in two; whenever it raises, groupings stays as it was.  *)
C15_AddGroupingErrors ==
    [][(last = Ready /\ last'.op = "add_grouping")
         => LET listed == Flatten(last'.grouping)
                undeclared == \E n \in DOMAIN listed : listed[n] \notin Powers
                omitted == \E q \in Powers : \A n \in DOMAIN listed : listed[n] # q
                repeated == \E n, m \in DOMAIN listed : n # m /\ listed[n] = listed[m]
            IN  /\ undeclared => last'.exc.type = "InvalidPower"
                /\ (~undeclared /\ omitted) => last'.exc.type = "MissingPower"
                /\ repeated => last'.exc # NoException
                /\ last'.exc # NoException => groupings' = groupings
                /\ (~undeclared /\ ~omitted /\ ~repeated)
                      => /\ last'.exc = NoException
                         /\ groupings' = Append(groupings, <<last'.grouping, last'.value>>)
      ]_vars

\* The ways of giving each of for_players a power of its own.
Bijections(for_players) ==
    LET players == {for_players[n] : n \in DOMAIN for_players} IN
    {a \in [players -> Powers] : \A k, j \in players : k # j => a[k] # a[j]}

RECURSIVE SumOf(_)
SumOf(seq) == IF seq = <<>> THEN 0 ELSE Head(seq) + SumOf(Tail(seq))

\* The first group of grouping that holds the power v.
FirstGroup(grouping, v) ==
    LET n == CHOOSE n \in DOMAIN grouping :
                /\ \E m \in DOMAIN grouping[n] : grouping[n][m] = v
                /\ \A j \in 1 .. (n - 1) : \A m \in DOMAIN grouping[j] : grouping[j][m] # v
    IN  {grouping[n][m] : m \in DOMAIN grouping[n]}

\* The composite score, by players: for each grouping its value times the
\* number of players given a power of a group that holds a power they have
\* played, and the number of players given a power they have played.
ScoreByPlayers(a) ==
    SumOf([n \in DOMAIN groupings |->
             groupings[n][2] *
             Cardinality({k \in DOMAIN a :
                 \E m \in DOMAIN groupings[n][1] :
                    LET group == {groupings[n][1][m][j] : j \in DOMAIN groupings[n][1][m]}
                    IN  a[k] \in group /\ group \cap Played(k) # {}})])
    + Cardinality({k \in DOMAIN a : a[k] \in Played(k)})

\* The composite score, by games played: for each grouping its value times
\* the number of games the players have played with a power of the group of
\* the power they are given, and the number of games they have played with
\* the very power they are given.
ScoreByGames(a) ==
    LET games(k) == {k} \X DOMAIN History(k) IN
    SumOf([n \in DOMAIN groupings |->
             groupings[n][2] *
             Cardinality({x \in UNION {games(k) : k \in DOMAIN a} :
                 History(x[1])[x[2]] \in FirstGroup(groupings[n][1], a[x[1]])})])
    + Cardinality({x \in UNION {games(k) : k \in DOMAIN a} :
                      History(x[1])[x[2]] = a[x[1]]})

\* best_power_assignment has returned an assignment for as many players as
\* there are powers.
Assigned ==
    /\ last.op = "best_power_assignment"
    /\ Len(last.for_players) = Len(all_powers)

(* C16 as stated: for as many players as there are powers,                 *)
(* best_power_assignment returns a bijection from the players to the       *)
(* powers whose composite score by players is the least of any bijection.  *)
C16_BestByPlayers ==
    Assigned => /\ last.exc = NoException
                /\ last.ret \in Bijections(last.for_players)
                /\ \A b \in Bijections(last.for_players) :
                      ScoreByPlayers(last.ret) <= ScoreByPlayers(b)

(* C16: for as many players as there are powers, best_power_assignment     *)
(* returns a bijection from the players to the powers whose composite      *)
(* score by games played is the least of any bijection, and is 0 when no   *)
(* player has played any game.                                             *)
C16_BestByGames ==
    Assigned => /\ last.exc = NoException
                /\ last.ret \in Bijections(last.for_players)
                /\ \A b \in Bijections(last.for_players) :
                      ScoreByGames(last.ret) <= ScoreByGames(b)
                /\ (\A k \in DOMAIN last.ret : History(k) = <<>>)
                      => ScoreByGames(last.ret) = 0

\* Two groupings and two players with games played: the assignment returned
\* scores above 0, and the other one scores more.
C16_Witness ==
    /\ Assigned
    /\ Len(groupings) = 2
    /\ \A k \in DOMAIN last.ret : History(k) # <<>>
    /\ ScoreByGames(last.ret) > 0
    /\ \E b \in Bijections(last.for_players) : ScoreByGames(last.ret) < ScoreByGames(b)

\* The score of the assignment best_power_assignment returns for the
\* players P and Q.
BestScore(previous, heap, registered) ==
    BestPowerAssignmentResult(previous, heap, registered, <<"P", "Q">>, all_powers).score

\* add_power_played has appended a power to a player's list.
Appended == last = Ready /\ last'.op = "add_power_played" /\ last'.exc = NoException

(* C17 as stated: a power appended to a player's history never lowers the  *)
(* score of the assignment best_power_assignment returns, whatever the     *)
(* groupings.                                                              *)
C17_ScoreNeverFalls ==
    [][Appended
         => BestScore(previous_games', lists', groupings')
              >= BestScore(previous_games, lists, groupings)
      ]_vars

(* C17: when no grouping has a negative value, a power appended to a       *)
(* player's history never lowers the score of the assignment               *)
(* best_power_assignment returns.                                          *)
C17_ScoreNeverFallsUnlessNegative ==
    [][(Appended /\ \A n \in DOMAIN groupings : groupings[n][2] >= 0)
         => BestScore(previous_games', lists', groupings')
              >= BestScore(previous_games, lists, groupings)
      ]_vars

\* A power has been appended, a grouping is registered, and the best score
\* is above what it was without that power.
C17_Witness ==
    /\ last.op = "add_power_played" /\ last.exc = NoException
    /\ groupings # <<>>
    /\ \A n \in DOMAIN groupings : groupings[n][2] >= 0
    /\ LET l == previous_games[last.for_player]
           before == [lists EXCEPT ![l] = SubSeq(@, 1, Len(@) - 1)]
       IN  BestScore(previous_games, before, groupings)
             < BestScore(previous_games, lists, groupings)

\* The history of player k under the dict previous and the lists heap.
HistoryIn(previous, heap, k) ==
    IF k \in DOMAIN previous THEN heap[previous[k]] ELSE <<>>

(* C18: set_earlier_games(p, l) makes l the history of p, and              *)
(* add_power_played(p, power) appends power to the history of p, which is  *)
(* empty when nothing was set; neither changes the history of another      *)
(* player. Either call, given something that is no power, raises           *)
(* InvalidPower and changes no history.                                    *)
C18_HistoryIsSetThenAdded ==
    [][(last = Ready /\ last'.op \in {"set_earlier_games", "add_power_played"})
         => LET p == last'.for_player
                setting == last'.op = "set_earlier_games"
                unknown == IF setting THEN ~(SetOf(last'.powers_played) \subseteq Powers)
                           ELSE last'.power \notin Powers
                expected == IF setting THEN last'.powers_played
                            ELSE Append(History(p), last'.power)
                after(k) == HistoryIn(previous_games', lists', k)
            IN  IF unknown
                THEN /\ last'.exc.type = "InvalidPower"
                     /\ \A k \in PowerPlayers : after(k) = History(k)
                ELSE /\ last'.exc = NoException
                     /\ after(p) = expected
                     /\ \A k \in PowerPlayers \ {p} : after(k) = History(k)
      ]_vars

-----------------------------------------------------------------------------
(* add_played_game that raises *)

\* No pair has a game counted in the matrix.
NoSharedGames ==
    \A p \in Ids, q \in Ids : Count(games_played_matrix, p, q) = 0

(* C21: an add_played_game that raises, on the wrong number of players, a  *)
(* player playing themself or an unknown player, leaves the matrix and     *)
(* games_played as they were; so games_played is 0 exactly when every      *)
(* count of the matrix is 0.                                               *)
C21_RaiseLeavesHistory ==
    /\ [][(last = Ready /\ last'.op = "add_played_game" /\ last'.exc # NoException)
            => /\ games_played_matrix' = games_played_matrix
               /\ games_played' = games_played
         ]_vars
    /\ [](games_played = 0 <=> NoSharedGames)

====
